---- MODULE Spec2Model ----
(***************************************************************************)
(* Model of SHM_Meeting8ics.py: the invite parser (ICSOperations), the     *)
(* stakeholder directory (StakeholderOperations) and the meeting store as  *)
(* driven by MeetingUI and main().  One action is one Streamlit script     *)
(* run, i.e. one execution of main() for one user interaction.             *)
(*                                                                         *)
(* Text that the code takes apart (addresses, common names) is a sequence  *)
(* of one-character strings; text that the code only stores (titles,       *)
(* notes) is a plain string.  An optional value is a sequence of length 0  *)
(* or 1.                                                                   *)
(***************************************************************************)
EXTENDS Integers, Sequences, FiniteSets, TLC

VARIABLES
    Stakeholders,           \* committed rows of table Stakeholders
    Meetings,               \* committed rows of table Meetings
    Stakeholders_Meetings,  \* committed rows of the junction table (a bag)
    session_state,          \* st.session_state
    ics_file,               \* value of the file_uploader widget
    meeting_data,           \* result of parse_ics in the last run, if any
    now,                    \* datetime.now() as a day number
    outcome,                \* what the last script run did and reported
    runs,                   \* number of script runs of the session so far
    labels                  \* option id -> label drawn by the stakeholder multiselect

vars == <<Stakeholders, Meetings, Stakeholders_Meetings, session_state,
          ics_file, meeting_data, now, outcome, runs, labels>>

-----------------------------------------------------------------------------
(* Bounds *)

MaxRuns == 5
MaxMeetings == 2
MaxNow == 2
MaxAttendees == 3
MaxId == 2

-----------------------------------------------------------------------------
(* Text helpers: Python str methods and re.search on character sequences *)

Mailto == <<"m", "a", "i", "l", "t", "o", ":">>

Drop(s, n) == SubSeq(s, n + 1, Len(s))

Take(s, n) == SubSeq(s, 1, n)

\* positions of s where the text p starts
Occurrences(s, p) ==
    { i \in 1..Len(s) : i + Len(p) - 1 <= Len(s) /\ SubSeq(s, i, i + Len(p) - 1) = p }

Min(S) == CHOOSE x \in S : \A y \in S : x <= y

Max(S) == CHOOSE x \in S : \A y \in S : x >= y

\* the longest prefix of s without a line break: what (.*) matches
DotStar(s) ==
    LET nl == Occurrences(s, <<"\n">>)
    IN  IF nl = {} THEN s ELSE Take(s, Min(nl) - 1)

\* a split whose first part is not taken
BeforeFirstKeepsAll(s, c) == s

\* str.split(c)[0]
BeforeFirst(s, c) ==
    LET at == Occurrences(s, <<c>>)
    IN  IF at = {} THEN s ELSE Take(s, Min(at) - 1)

\* str.split(c)[-1]
AfterLast(s, c) ==
    LET at == Occurrences(s, <<c>>)
    IN  IF at = {} THEN s ELSE Drop(s, Max(at))

\* the characters str.strip() removes
Whitespace == {" ", "\t", "\n"}

\* str.strip()
Strip(s) ==
    LET kept == { i \in 1..Len(s) : s[i] \notin Whitespace }
    IN  IF kept = {} THEN <<>> ELSE SubSeq(s, Min(kept), Max(kept))

Digits == <<"0", "1", "2", "3", "4", "5", "6", "7", "8", "9">>

\* str(n) of a row id
RECURSIVE Str(_)
Str(n) ==
    IF n < Len(Digits) THEN <<Digits[n + 1]>>
    ELSE Str(n \div Len(Digits)) \o <<Digits[(n % Len(Digits)) + 1]>>

\* str.split(c, 1)
SplitOnce(s, c) ==
    LET at == Occurrences(s, <<c>>)
    IN  IF at = {} THEN <<s>> ELSE <<Take(s, Min(at) - 1), Drop(s, Min(at))>>

-----------------------------------------------------------------------------
(* ICSOperations *)

\* Result: <<>> for None, <<email>> for a match (the email may be empty).
parse_attendee_email(attendee_string) ==
    LET at == Occurrences(attendee_string, Mailto)
    IN  IF at = {} THEN <<>>
        ELSE <<DotStar(Drop(attendee_string, Min(at) + Len(Mailto) - 1))>>

parse_attendee_name(description) ==
    LET name_parts == SplitOnce(AfterLast(description, ":"), " ")
    IN  IF Len(name_parts) >= 2
        THEN <<name_parts[1], name_parts[2]>>
        ELSE <<name_parts[1], <<>>>>

\* component.get('attendee', []) of icalendar: the default when the property
\* does not occur, the one vCalAddress itself when it occurs once, a list of
\* vCalAddress when it occurs several times.
ComponentGetAttendee(component) ==
    LET occ == component.attendee
    IN  IF Len(occ) = 0 THEN [kind |-> "list", items |-> <<>>]
        ELSE IF Len(occ) = 1 THEN [kind |-> "vCalAddress", items |-> occ]
        ELSE [kind |-> "list", items |-> occ]

\* What "for attendee in ..." iterates over: the elements of a list, but the
\* characters of a single vCalAddress (a str); a character has no params.
IterAttendee(got) ==
    IF got.kind = "list" THEN got.items
    ELSE LET s == got.items[1].value
         IN  [i \in 1..Len(s) |-> [value |-> <<s[i]>>, CN |-> <<>>]]

\* One pass of the loop body of parse_ics (lines 65-78) for one attendee.
AttendeeEntry(attendee) ==
    LET email == parse_attendee_email(attendee.value)
    IN  IF email # <<>> /\ email[1] # <<>>
        THEN LET cn == attendee.CN
                 nm == IF cn # <<>> THEN parse_attendee_name(cn)
                       ELSE <<BeforeFirst(email[1], "@"), <<>>>>
             IN  <<[email |-> email[1], first_name |-> nm[1], last_name |-> nm[2]]>>
        ELSE <<>>

RECURSIVE CollectAttendees(_)
CollectAttendees(items) ==
    IF items = <<>> THEN <<>>
    ELSE AttendeeEntry(Head(items)) \o CollectAttendees(Tail(items))

\* calendar.walk(): the components in document order; the first VEVENT.
FirstEvent(components) ==
    LET ev == { i \in 1..Len(components) : components[i].name = "VEVENT" }
    IN  IF ev = {} THEN <<>> ELSE <<components[Min(ev)]>>

EmptyDict == [k \in {} |-> <<>>]

PyNone == [tag |-> "None", d |-> EmptyDict]

\* Result: PyNone after an exception, otherwise the dict meeting_details.
parse_ics(file) ==
    IF file.malformed THEN PyNone
    ELSE LET ev == FirstEvent(file.components)
         IN  IF ev = <<>> THEN [tag |-> "dict", d |-> EmptyDict]
             ELSE IF ev[1].dtstart = <<>> THEN PyNone
             ELSE [tag |-> "dict",
                   d |-> [title |-> IF ev[1].summary = <<>> THEN "" ELSE ev[1].summary[1],
                          date |-> ev[1].dtstart[1],
                          description |-> IF ev[1].description = <<>> THEN ""
                                          ELSE ev[1].description[1],
                          attendees |-> CollectAttendees(IterAttendee(ComponentGetAttendee(ev[1])))]]

DictGet(d, k, default) == IF k \in DOMAIN d THEN d[k] ELSE default

Truthy(result) == result.tag = "dict" /\ DOMAIN result.d # {}

-----------------------------------------------------------------------------
(* Python dates and the sqlite3 adapter *)

\* datetime.now()
DatetimeNow(day) == [kind |-> "datetime", d |-> day]

\* x.date(): defined on a datetime, AttributeError on a date
HasDateMethod(x) == x.kind = "datetime"

DateOf(x) == [kind |-> "date", d |-> x.d]

\* sqlite3's default adapter stores a date as its ISO text
AdaptDate(x) == [iso |-> x.d]

-----------------------------------------------------------------------------
(* DatabaseOperations: a connection is the committed store plus the view   *)
(* of the connection, which also holds the writes of its open transaction. *)

\* A table without a key is a bag of rows: a function from row to row count.
NoRows == [r \in {} |-> 0]

RowsOf(bag) == DOMAIN bag

AddRow(bag, row) ==
    [r \in DOMAIN bag \cup {row} |->
        IF r \in DOMAIN bag THEN (IF r = row THEN bag[r] + 1 ELSE bag[r]) ELSE 1]

EmptyStore == [Stakeholders |-> {}, Meetings |-> {}, Stakeholders_Meetings |-> NoRows]

Store == [Stakeholders |-> Stakeholders, Meetings |-> Meetings,
          Stakeholders_Meetings |-> Stakeholders_Meetings]

\* sqlite3.connect(DB_PATH), then PRAGMA foreign_keys = ON
get_connection(store) == [committed |-> store, view |-> store]

\* conn.commit()
Commit(conn) == [conn EXCEPT !.committed = conn.view]

\* a close that commits the open transaction
ConnCloseCommits(conn) == conn.view

\* conn.close(): the writes of an open transaction are discarded
ConnClose(conn) == conn.committed

\* the rowid SQLite assigns to a new row
NextRowId(ids) == IF ids = {} THEN 1 ELSE Max(ids) + 1

StakeholderIds(store) == { r.pk_sk_id : r \in store.Stakeholders }

MeetingIds(store) == { r.pk_meeting_id : r \in store.Meetings }

\* SELECT fk_sh_id FROM Stakeholders_Meetings WHERE fk_meeting_id = ?
AttendeeRows(store, meeting_id) ==
    { r \in RowsOf(store.Stakeholders_Meetings) : r.fk_meeting_id = meeting_id }

getAttendees(store, meeting_id) == { r.fk_sh_id : r \in AttendeeRows(store, meeting_id) }

\* INSERT INTO Stakeholders_Meetings: with foreign keys on, both ids must exist
ForeignKeysHold(store, stakeholder_id, meeting_id) ==
    stakeholder_id \in StakeholderIds(store) /\ meeting_id \in MeetingIds(store)

\* an insert whose parameter tuple has the two ids swapped
InsertAttendanceSwapped(conn, stakeholder_id, meeting_id) ==
    [conn EXCEPT !.view.Stakeholders_Meetings =
        AddRow(@, [fk_sh_id |-> meeting_id, fk_meeting_id |-> stakeholder_id])]

InsertAttendance(conn, stakeholder_id, meeting_id) ==
    [conn EXCEPT !.view.Stakeholders_Meetings =
        AddRow(@, [fk_sh_id |-> stakeholder_id, fk_meeting_id |-> meeting_id])]

\* an update that adds to the old associations instead of replacing them
DeleteAttendanceSkipped(conn, meeting_id) == conn

\* DELETE FROM Stakeholders_Meetings WHERE fk_meeting_id = ?
DeleteAttendance(conn, meeting_id) ==
    LET old == conn.view.Stakeholders_Meetings
        keep == { r \in RowsOf(old) : r.fk_meeting_id # meeting_id }
    IN  [conn EXCEPT !.view.Stakeholders_Meetings = [r \in keep |-> old[r]]]

\* an UPDATE without its WHERE clause
UpdateDiscussionsOfAll(conn, meeting_id, discussion_text) ==
    [conn EXCEPT !.view.Meetings =
        { [r EXCEPT !.discussions = discussion_text] : r \in @ }]

\* UPDATE Meetings SET discussions = ? WHERE pk_meeting_id = ?
UpdateDiscussions(conn, meeting_id, discussion_text) ==
    [conn EXCEPT !.view.Meetings =
        { IF r.pk_meeting_id = meeting_id
          THEN [r EXCEPT !.discussions = discussion_text] ELSE r : r \in @ }]

\* an insert whose parameter tuple has title and discussions swapped
InsertMeetingSwapped(conn, title, date, discussions) ==
    LET id == NextRowId(MeetingIds(conn.view))
    IN  [conn |-> [conn EXCEPT !.view.Meetings =
                      @ \cup {[pk_meeting_id |-> id, title |-> discussions,
                               date |-> AdaptDate(date), discussions |-> title]}],
         lastrowid |-> id]

\* INSERT INTO Meetings (title, date, discussions)
InsertMeeting(conn, title, date, discussions) ==
    LET id == NextRowId(MeetingIds(conn.view))
    IN  [conn |-> [conn EXCEPT !.view.Meetings =
                      @ \cup {[pk_meeting_id |-> id, title |-> title,
                               date |-> AdaptDate(date), discussions |-> discussions]}],
         lastrowid |-> id]

-----------------------------------------------------------------------------
(* StakeholderOperations *)

\* a find-or-create that overwrites the names of a stakeholder it finds
add_stakeholder_update_on_conflict(conn, email, first_name, last_name) ==
    LET result == { r \in conn.view.Stakeholders : r.email = email }
        id == IF result # {} THEN Min({ r.pk_sk_id : r \in result })
              ELSE NextRowId(StakeholderIds(conn.view))
        ins == [conn EXCEPT !.view.Stakeholders =
                   (@ \ result) \cup {[pk_sk_id |-> id, first_name |-> first_name,
                                       last_name |-> last_name, email |-> email]}]
    IN  [conn |-> Commit(ins), id |-> id]

\* a find-or-create that leaves its insert in the open transaction
add_stakeholder_uncommitted(conn, email, first_name, last_name) ==
    LET result == { r \in conn.view.Stakeholders : r.email = email }
    IN  IF result # {}
        THEN [conn |-> conn, id |-> Min({ r.pk_sk_id : r \in result })]
        ELSE LET id == NextRowId(StakeholderIds(conn.view))
             IN  [conn |-> [conn EXCEPT !.view.Stakeholders =
                              @ \cup {[pk_sk_id |-> id, first_name |-> first_name,
                                       last_name |-> last_name, email |-> email]}],
                  id |-> id]

\* a find-or-create that never looks the email up
add_stakeholder_always(conn, email, first_name, last_name) ==
    LET id == NextRowId(StakeholderIds(conn.view))
        ins == [conn EXCEPT !.view.Stakeholders =
                   @ \cup {[pk_sk_id |-> id, first_name |-> first_name,
                            last_name |-> last_name, email |-> email]}]
    IN  [conn |-> Commit(ins), id |-> id]

\* Result: the connection afterwards and the id returned.
add_stakeholder_if_not_exists(conn, email, first_name, last_name) ==
    LET result == { r \in conn.view.Stakeholders : r.email = email }
    IN  IF result # {}
        THEN [conn |-> conn, id |-> Min({ r.pk_sk_id : r \in result })]
        ELSE LET id == NextRowId(StakeholderIds(conn.view))
                 ins == [conn EXCEPT !.view.Stakeholders =
                            @ \cup {[pk_sk_id |-> id, first_name |-> first_name,
                                     last_name |-> last_name, email |-> email]}]
             IN  [conn |-> Commit(ins), id |-> id]

StakeholderWord == <<"S", "t", "a", "k", "e", "h", "o", "l", "d", "e", "r", " ">>

UnknownWord == <<"U", "n", "k", "n", "o", "w", "n", " ">>

\* the label of one option of a stakeholder multiselect
format_stakeholder_name(stakeholder_id, stakeholders) ==
    IF stakeholders = {}
    THEN StakeholderWord \o Str(stakeholder_id)
    ELSE LET matching_rows == { r \in stakeholders : r.pk_sk_id = stakeholder_id }
         IN  IF matching_rows = {}
             THEN UnknownWord \o StakeholderWord \o Str(stakeholder_id)
             ELSE LET row == CHOOSE r \in matching_rows : TRUE
                      name == Strip(row.first_name \o <<" ">> \o row.last_name)
                  IN  IF name # <<>> THEN name
                      ELSE StakeholderWord \o Str(stakeholder_id)

\* the labels a stakeholder multiselect draws: format_func on each option
Labels(stakeholders) ==
    IF stakeholders = {} THEN <<>>
    ELSE [ x \in { r.pk_sk_id : r \in stakeholders } |->
             format_stakeholder_name(x, stakeholders) ]

-----------------------------------------------------------------------------
(* Python lists and sets *)

ToSet(list) == { list[i] : i \in 1..Len(list) }

\* the lists that hold each element of S once
Orderings(S) ==
    { l \in [1..Cardinality(S) -> S] : ToSet(l) = S }

\* the elements of a set of numbers in ascending order
RECURSIVE Ascending(_)
Ascending(S) == IF S = {} THEN <<>> ELSE <<Min(S)>> \o Ascending(S \ {Min(S)})

-----------------------------------------------------------------------------
(* MeetingUI.create_meeting_ui, lines 126-192: the form up to the button *)

\* lines 155-165
RECURSIVE ImportAttendees(_, _)
ImportAttendees(conn, attendees) ==
    IF attendees = <<>> THEN [conn |-> conn, ids |-> <<>>]
    ELSE LET attendee == Head(attendees)
             found == add_stakeholder_if_not_exists(conn, attendee.email,
                          attendee.first_name, attendee.last_name)
             rest == ImportAttendees(found.conn, Tail(attendees))
         IN  [conn |-> rest.conn,
              ids |-> (IF found.id # 0 THEN <<found.id>> ELSE <<>>) \o rest.ids]

\* typed: the values of the three input widgets.  Result: whether the run
\* died of an uncaught exception, the connection, the session state, the
\* fields the button would insert, and the result of parse_ics.
CreateForm(conn, ss, file, typed, today) ==
    LET plain == [crashed |-> FALSE, conn |-> conn, ss |-> ss,
                  title |-> typed.title, date |-> typed.date,
                  discussion |-> typed.discussion, meeting_data |-> <<>>]
    IN  IF file = <<>> THEN plain
        ELSE LET parsed == parse_ics(file[1])
             IN  IF ~Truthy(parsed) THEN [plain EXCEPT !.meeting_data = <<parsed>>]
                 ELSE LET dt == DictGet(parsed.d, "date", DatetimeNow(today))
                      IN  IF ~HasDateMethod(dt)
                          THEN [plain EXCEPT !.crashed = TRUE, !.meeting_data = <<parsed>>]
                          ELSE LET imp == ImportAttendees(conn,
                                              DictGet(parsed.d, "attendees", <<>>))
                               IN  [crashed |-> FALSE,
                                    conn |-> imp.conn,
                                    ss |-> [ss EXCEPT !.ics_stakeholders = imp.ids],
                                    title |-> DictGet(parsed.d, "title", ""),
                                    date |-> DateOf(dt),
                                    discussion |-> DictGet(parsed.d, "description", ""),
                                    meeting_data |-> <<parsed>>]

-----------------------------------------------------------------------------
(* MeetingUI.create_meeting_ui, lines 194-235: the "Add Meeting" button *)

\* the two lists joined without going through a set
all_stakeholders_concatenated(selected_stakeholders, ics_stakeholders) ==
    {selected_stakeholders \o ics_stakeholders}

\* list(set(selected_stakeholders + ics_stakeholders)): the iteration order
\* of a set is not fixed, so every ordering is a possible list
all_stakeholders(selected_stakeholders, ics_stakeholders) ==
    Orderings(ToSet(selected_stakeholders \o ics_stakeholders))

\* lines 214-219; statement k of the run raises when k = failAt
RECURSIVE CreateAssociations(_, _, _, _, _)
CreateAssociations(conn, list, new_meeting_id, k, failAt) ==
    IF list = <<>> THEN [conn |-> conn, ok |-> TRUE]
    ELSE IF k = failAt \/ ~ForeignKeysHold(conn.view, Head(list), new_meeting_id)
    THEN [conn |-> conn, ok |-> FALSE]
    ELSE CreateAssociations(Commit(InsertAttendance(conn, Head(list), new_meeting_id)),
                            Tail(list), new_meeting_id, k + 1, failAt)

\* Result: the connection, the session state, whether st.success was
\* reached, and the id of the inserted meeting (0 if none was inserted).
AddMeetingButton(conn, ss, form, list, failAt) ==
    IF failAt = 1 THEN [conn |-> conn, ss |-> ss, ok |-> FALSE, new_meeting_id |-> 0]
    ELSE LET ins == InsertMeeting(conn, form.title, form.date, form.discussion)
             assoc == CreateAssociations(Commit(ins.conn), list, ins.lastrowid, 2, failAt)
         IN  IF assoc.ok
             THEN [conn |-> assoc.conn,
                   ss |-> [ss EXCEPT !.selected_meeting_id = <<ins.lastrowid>>,
                                     !.create_new_meeting = FALSE],
                   ok |-> TRUE, new_meeting_id |-> ins.lastrowid]
             ELSE [conn |-> assoc.conn, ss |-> ss, ok |-> FALSE,
                   new_meeting_id |-> ins.lastrowid]

-----------------------------------------------------------------------------
(* MeetingUI.save_meeting_details, lines 294-320 *)

\* lines 308-312
RECURSIVE SaveAssociations(_, _, _, _, _)
SaveAssociations(conn, list, meeting_id, k, failAt) ==
    IF list = <<>> THEN [conn |-> conn, ok |-> TRUE]
    ELSE IF k = failAt \/ ~ForeignKeysHold(conn.view, Head(list), meeting_id)
    THEN [conn |-> conn, ok |-> FALSE]
    ELSE SaveAssociations(InsertAttendance(conn, Head(list), meeting_id),
                          Tail(list), meeting_id, k + 1, failAt)

\* Statement 1 is the UPDATE, 2 the DELETE, 2 + k the k-th INSERT.
save_meeting_details(conn, meeting_id, discussion_text, selected_stakeholders, failAt) ==
    IF failAt = 1 THEN [conn |-> conn, ok |-> FALSE]
    ELSE LET upd == UpdateDiscussions(conn, meeting_id, discussion_text)
         IN  IF failAt = 2 THEN [conn |-> upd, ok |-> FALSE]
             ELSE LET assoc == SaveAssociations(DeleteAttendance(upd, meeting_id),
                                   selected_stakeholders, meeting_id, 3, failAt)
                  IN  IF assoc.ok THEN [conn |-> Commit(assoc.conn), ok |-> TRUE]
                      ELSE [conn |-> assoc.conn, ok |-> FALSE]

-----------------------------------------------------------------------------
(* The inputs of a session: invite documents and what the user types *)

EmailA == <<"a", "@", "x">>

EmailB == <<"b", "@", "x">>

EmailC == <<"c", "@", "x">>

Attendee(value, cn) == [value |-> value, CN |-> cn]

Event(summary, dtstart, description, attendee) ==
    [name |-> "VEVENT", summary |-> summary, dtstart |-> dtstart,
     description |-> description, attendee |-> attendee]

Todo == [name |-> "VTODO", summary |-> <<"todo">>, dtstart |-> <<>>,
         description |-> <<>>, attendee |-> <<>>]

Document(components) == [malformed |-> FALSE, components |-> components]

Garbage == [malformed |-> TRUE, components |-> <<>>]

InviteAB ==
    Document(<<Event(<<"Kickoff">>, <<[kind |-> "datetime", d |-> 1]>>, <<"agenda">>,
                     <<Attendee(Mailto \o EmailA, <<"A", "l", " ", "B">>),
                       Attendee(Mailto \o EmailB, <<>>)>>)>>)

\* lists b@x twice, under two names
InviteBCB ==
    Document(<<Event(<<"Review">>, <<[kind |-> "datetime", d |-> 1]>>, <<>>,
                     <<Attendee(Mailto \o EmailB, <<"B", "o">>),
                       Attendee(Mailto \o EmailC, <<>>),
                       Attendee(Mailto \o EmailB, <<"Z", "e">>)>>)>>)

InviteNoStart ==
    Document(<<Event(<<"Sync">>, <<>>, <<"notes">>,
                     <<Attendee(Mailto \o EmailA, <<>>),
                       Attendee(Mailto \o EmailC, <<>>)>>)>>)

Invites == {InviteAB, InviteBCB, InviteNoStart}

Typed == [title : {"Standup"}, date : {[kind |-> "date", d |-> 2]},
          discussion : {"minutes"}]

SaveTexts == {"revised"}

-----------------------------------------------------------------------------
(* main(): one script run per user interaction *)

\* op: the interaction; status: "ok" after st.success, "error" after
\* st.error, "crash" after an uncaught exception; failed_at: the statement
\* that raised; current: the attendees the view form loaded (line 269).
Report(op, status, meeting_id, selected, form, failed_at, current) ==
    [op |-> op, status |-> status, meeting_id |-> meeting_id,
     selected |-> selected, title |-> form.title,
     date |-> form.date, discussion |-> form.discussion,
     failed_at |-> failed_at, current |-> current]

NoForm == [title |-> "", date |-> [kind |-> "date", d |-> 0], discussion |-> ""]

Quiet(op, status) == Report(op, status, 0, {}, NoForm, 0, {})

\* initialize_session_state on the first run of a session
Init ==
    /\ Stakeholders = {}
    /\ Meetings = {}
    /\ Stakeholders_Meetings = NoRows
    /\ session_state = [create_new_meeting |-> FALSE, selected_meeting_id |-> <<>>,
                        ics_stakeholders |-> <<>>]
    /\ ics_file = <<>>
    /\ meeting_data = <<>>
    /\ now = 1
    /\ outcome = Quiet("start", "none")
    /\ runs = 0
    /\ labels = <<>>

\* conn.close() at the end of main() leaves the committed store
SetStore(store) ==
    /\ runs < MaxRuns
    /\ runs' = runs + 1
    /\ Stakeholders' = store.Stakeholders
    /\ Meetings' = store.Meetings
    /\ Stakeholders_Meetings' = store.Stakeholders_Meetings

FormStatus(form) ==
    IF form.crashed THEN "crash"
    ELSE IF form.meeting_data # <<>> /\ form.meeting_data[1].tag = "None" THEN "error"
    ELSE "none"

\* a run of create_meeting_ui in which the button is not pressed
CreateRun(op, file) ==
    \E form \in {CreateForm(get_connection(Store), session_state, file,
                            CHOOSE t \in Typed : TRUE, now)} :
        /\ SetStore(ConnClose(form.conn))
        /\ session_state' = form.ss
        /\ ics_file' = file
        /\ meeting_data' = form.meeting_data
        /\ outcome' = Quiet(op, FormStatus(form))
        /\ labels' = IF form.crashed THEN <<>> ELSE Labels(Stakeholders)
        /\ UNCHANGED now

\* the user ticks or unticks "Create a new meeting"; a widget that is not
\* drawn in a run loses its value, so the uploader starts empty
ToggleCreate ==
    /\ session_state' = [session_state EXCEPT !.create_new_meeting = ~@]
    /\ SetStore(ConnClose(get_connection(Store)))
    /\ ics_file' = <<>>
    /\ meeting_data' = <<>>
    /\ outcome' = Quiet("toggle", "none")
    /\ labels' = IF session_state.create_new_meeting /\ Meetings = {}
                 THEN <<>> ELSE Labels(Stakeholders)
    /\ UNCHANGED now

\* the user drops an invite on the uploader
Upload(file) ==
    /\ session_state.create_new_meeting
    /\ CreateRun("upload", <<file>>)

\* the user removes the uploaded invite
RemoveFile ==
    /\ session_state.create_new_meeting
    /\ ics_file # <<>>
    /\ CreateRun("remove", <<>>)

\* the user presses "Add Meeting"
AddMeeting ==
    /\ session_state.create_new_meeting
    /\ Cardinality(Meetings) < MaxMeetings
    /\ \E typed \in Typed :
       \E form \in {CreateForm(get_connection(Store), session_state, ics_file, typed, now)} :
             /\ ~form.crashed
             /\ \E selected \in SUBSET StakeholderIds(form.conn.view) :
                \E list \in all_stakeholders(Ascending(selected), form.ss.ics_stakeholders) :
                \E failAt \in 0..(Len(list) + 1) :
                \E done \in {AddMeetingButton(form.conn, form.ss, form, list, failAt)} :
                      /\ SetStore(ConnClose(done.conn))
                      /\ session_state' = done.ss
                      /\ ics_file' = IF done.ok THEN <<>> ELSE ics_file
                      /\ meeting_data' = IF done.ok THEN <<>> ELSE form.meeting_data
                      /\ outcome' = Report("create", IF done.ok THEN "ok" ELSE "error",
                                           done.new_meeting_id, selected, form,
                                           IF done.ok THEN 0 ELSE failAt, {})
    /\ labels' = Labels(Stakeholders)
    /\ UNCHANGED now

\* the user picks a meeting, edits notes and attendees and presses "Save";
\* the multiselect hands the selection over as a list without repeats
SaveMeeting ==
    /\ ~session_state.create_new_meeting
    /\ Meetings # {}
    /\ \E meeting_id \in MeetingIds(Store) :
       \E discussion_text \in SaveTexts :
       \E selected \in SUBSET StakeholderIds(Store) :
       \E list \in {Ascending(selected)} :
       \E failAt \in 0..(Len(list) + 2) :
       \E saved \in {save_meeting_details(get_connection(Store), meeting_id,
                                            discussion_text, list, failAt)} :
             /\ SetStore(ConnClose(saved.conn))
             /\ outcome' = Report("save", IF saved.ok THEN "ok" ELSE "error",
                                  meeting_id, selected,
                                  [NoForm EXCEPT !.discussion = discussion_text],
                                  IF saved.ok THEN 0 ELSE failAt,
                                  getAttendees(Store, meeting_id))
    /\ labels' = Labels(Stakeholders)
    /\ UNCHANGED <<session_state, ics_file, meeting_data, now>>

\* a day passes
Tick ==
    /\ now < MaxNow
    /\ now' = now + 1
    /\ UNCHANGED <<Stakeholders, Meetings, Stakeholders_Meetings, session_state,
                   ics_file, meeting_data, outcome, runs, labels>>

Next ==
    \/ ToggleCreate
    \/ \E file \in Invites : Upload(file)
    \/ RemoveFile
    \/ AddMeeting
    \/ SaveMeeting

Spec == Init /\ [][Next]_vars

-----------------------------------------------------------------------------
(* The import step alone: one invite, drawn from every shape of document   *)
(* up to MaxAttendees attendee lines, is dropped on an empty create form.  *)

AttendeeLines ==
    { Attendee(Mailto \o EmailA, <<"A", "l", " ", "B">>),
      Attendee(Mailto \o EmailB, <<>>),
      Attendee(EmailC, <<"C", "y">>),
      Attendee(Mailto, <<>>),
      Attendee(Mailto \o EmailC, <<"D", "r", ":", "C", "y", " ", "D", " ", "E">>) }

AttendeeLists == UNION { [1..n -> AttendeeLines] : n \in 0..MaxAttendees }

Events ==
    { Event(summary, dtstart, <<"agenda">>, attendee) :
        summary \in {<<>>, <<"Kickoff">>},
        dtstart \in {<<>>, <<[kind |-> "datetime", d |-> 1]>>, <<[kind |-> "date", d |-> 1]>>},
        attendee \in AttendeeLists }

ParsePayloads ==
    {Garbage, Document(<<>>), Document(<<Todo>>)}
        \cup { Document(<<e>>) : e \in Events }
        \cup { Document(<<Todo, e, InviteAB.components[1]>>) : e \in Events }

InitParse ==
    /\ Stakeholders = {}
    /\ Meetings = {}
    /\ Stakeholders_Meetings = NoRows
    /\ session_state = [create_new_meeting |-> TRUE, selected_meeting_id |-> <<>>,
                        ics_stakeholders |-> <<>>]
    /\ ics_file = <<>>
    /\ meeting_data = <<>>
    /\ now = 1
    /\ outcome = Quiet("start", "none")
    /\ runs = 0
    /\ labels = <<>>

UploadOnce ==
    /\ outcome.op = "start"
    /\ \E file \in ParsePayloads : Upload(file)

NextParse ==
    \/ UploadOnce
    \/ Tick

SpecParse == InitParse /\ [][NextParse]_vars

-----------------------------------------------------------------------------
(* The label function alone: it is applied to every id up to MaxId and to  *)
(* every directory snapshot whose rows have ids up to MaxId.               *)

FirstNames == {<<>>, <<" ">>, <<"A", "l">>}

LastNames == {<<>>, <<"B">>}

\* the rows of a directory that holds the ids of the set ids
SnapshotsOf(ids) ==
    { { [pk_sk_id |-> x, first_name |-> f[x][1], last_name |-> f[x][2],
         email |-> Str(x) \o <<"@", "x">>] : x \in ids } :
        f \in [ids -> FirstNames \X LastNames] }

Snapshots == UNION { SnapshotsOf(ids) : ids \in SUBSET (1..MaxId) }

InitFormat ==
    /\ Stakeholders \in Snapshots
    /\ Meetings = {}
    /\ Stakeholders_Meetings = NoRows
    /\ session_state = [create_new_meeting |-> FALSE, selected_meeting_id |-> <<>>,
                        ics_stakeholders |-> <<>>]
    /\ ics_file = <<>>
    /\ meeting_data = <<>>
    /\ now = 1
    /\ outcome = Quiet("start", "none")
    /\ runs = 0
    /\ labels = <<>>

\* format_stakeholder_name is called on one id with the directory as it is
FormatName(stakeholder_id) ==
    /\ labels' = [ x \in {stakeholder_id} |->
                    format_stakeholder_name(x, Stakeholders) ]
    /\ UNCHANGED <<Stakeholders, Meetings, Stakeholders_Meetings, session_state,
                   ics_file, meeting_data, now, outcome, runs>>

NextFormat == \E stakeholder_id \in 1..MaxId : FormatName(stakeholder_id)

SpecFormat == InitFormat /\ [][NextFormat]_vars

-----------------------------------------------------------------------------
(* Properties of the meeting store and the stakeholder directory (Spec) *)

\* the step is a script run that pressed the button op and reported status
Ran(op, status) ==
    runs' # runs /\ outcome'.op = op /\ outcome'.status = status

MeetingRow(store, meeting_id) ==
    CHOOSE r \in store.Meetings : r.pk_meeting_id = meeting_id

\* number of junction rows that pair the stakeholder with the meeting
Pairs(store, stakeholder_id, meeting_id) ==
    LET row == [fk_sh_id |-> stakeholder_id, fk_meeting_id |-> meeting_id]
    IN  IF row \in RowsOf(store.Stakeholders_Meetings)
        THEN store.Stakeholders_Meetings[row] ELSE 0

\* C1: a create whose association insert fails leaves the Meetings and the
\* Attendance table exactly as they were before the call.
C1_CreateIsAtomic ==
    [][(Ran("create", "error") /\ outcome'.failed_at >= 2)
        => (Meetings' = Meetings /\ Stakeholders_Meetings' = Stakeholders_Meetings)]_vars

\* C2: a successful update of meeting m with notes and attendee set B leaves
\* m's attendee set exactly B and m's notes equal to the given notes,
\* whatever m's attendees were before.
C2_FullReplaceUpdate ==
    [][Ran("save", "ok")
        => /\ getAttendees(Store', outcome'.meeting_id) = outcome'.selected
           /\ MeetingRow(Store', outcome'.meeting_id).discussions = outcome'.discussion]_vars

\* an update has succeeded on a meeting whose old attendee set A and new
\* set B have A \ B, B \ A and the intersection all non-empty
C2_Witness ==
    /\ outcome.op = "save" /\ outcome.status = "ok"
    /\ outcome.current \ outcome.selected # {}
    /\ outcome.selected \ outcome.current # {}
    /\ outcome.selected \cap outcome.current # {}
    /\ getAttendees(Store, outcome.meeting_id) = outcome.selected

\* C3: when a step of an update of meeting m fails, then after the run has
\* closed its connection m's notes and m's attendee rows are what they were
\* before the call, so that no later run sees or commits a partial write.
C3_UpdateIsAtomic ==
    [][Ran("save", "error")
        => /\ MeetingRow(Store', outcome'.meeting_id) = MeetingRow(Store, outcome'.meeting_id)
           /\ \A s \in StakeholderIds(Store) \cup StakeholderIds(Store') :
                Pairs(Store', s, outcome'.meeting_id) = Pairs(Store, s, outcome'.meeting_id)]_vars

\* an update failed at an insert, after its UPDATE and DELETE had run, on a
\* meeting that has attendees and whose notes differ from the given ones
C3_Witness ==
    /\ outcome.op = "save" /\ outcome.status = "error"
    /\ outcome.failed_at >= 4
    /\ getAttendees(Store, outcome.meeting_id) # {}
    /\ getAttendees(Store, outcome.meeting_id) # outcome.selected
    /\ MeetingRow(Store, outcome.meeting_id).discussions # outcome.discussion

\* the step ran the import loop on the invite now in the uploader
Imported ==
    /\ runs' # runs
    /\ outcome'.status # "crash"
    /\ meeting_data' # <<>>
    /\ Truthy(meeting_data'[1])

FirstIndexOf(attendees, email) ==
    Min({ i \in 1..Len(attendees) : attendees[i].email = email })

\* C4: find-or-create called again for an email returns the identifier it
\* returned the first time, writes nothing, and the names stored for the
\* email stay those of the first call.
C4_FindOrCreateIdempotent ==
    [][/\ \A r \in Stakeholders : r \in Stakeholders'
       /\ (runs' # runs /\ outcome'.op # "upload") => Stakeholders' = Stakeholders
       /\ Imported =>
            LET attendees == meeting_data'[1].d.attendees
                ids == session_state'.ics_stakeholders
            IN  /\ Len(ids) = Len(attendees)
                /\ \A i \in 1..Len(attendees) :
                     \E r \in Stakeholders' :
                        /\ r.pk_sk_id = ids[i]
                        /\ r.email = attendees[i].email
                        /\ \A q \in Stakeholders : q.email = r.email => q = r
                        /\ r \notin Stakeholders =>
                             LET first == attendees[FirstIndexOf(attendees, r.email)]
                             IN  /\ r.first_name = first.first_name
                                 /\ r.last_name = first.last_name
                /\ Cardinality(Stakeholders' \ Stakeholders) =
                     Cardinality({ attendees[i].email : i \in 1..Len(attendees) }
                                   \ { r.email : r \in Stakeholders })]_vars

\* an invite that lists one email twice under two names has been imported
\* into a directory that already held another of its emails
C4_Witness ==
    /\ ics_file = <<InviteBCB>>
    /\ session_state.ics_stakeholders = <<2, 3, 2>>
    /\ \E r \in Stakeholders : r.pk_sk_id = 2 /\ r.email = EmailB /\ r.first_name = <<"b">> /\ r.last_name = <<>>

\* C5: no two stakeholder records have the same email, and no two have the
\* same identifier, in every state that imports, creates and updates reach.
C5_EmailUnique ==
    \A r, q \in Stakeholders :
        (r.email = q.email \/ r.pk_sk_id = q.pk_sk_id) => r = q

\* the invite that lists b@x twice has been imported after another invite
\* had already created b@x, and all three emails are in the directory
C5_Witness ==
    /\ ics_file = <<InviteBCB>>
    /\ meeting_data # <<>> /\ Truthy(meeting_data[1])
    /\ { r.email : r \in Stakeholders } = {EmailA, EmailB, EmailC}
    /\ Cardinality(Stakeholders) = 3

\* the title is the summary of an invite that imports
FromInvite(title) ==
    \E f \in Invites : Truthy(parse_ics(f)) /\ parse_ics(f).d.title = title

\* C6: once a meeting has been created from an imported invite, a meeting
\* created later with no invite in the uploader is associated with exactly
\* the stakeholders selected for it.
C6_InviteDraftDiscarded ==
    [][(/\ Ran("create", "ok")
        /\ ics_file = <<>>
        /\ session_state.selected_meeting_id # <<>>
        /\ FromInvite(MeetingRow(Store, session_state.selected_meeting_id[1]).title))
        => getAttendees(Store', outcome'.meeting_id) = outcome'.selected]_vars

\* C7: a successful create with selected ids S and invite ids I stores one
\* association row per element of S \cup I for the new meeting, and no
\* (stakeholder, meeting) pair is ever in the junction table twice.
C7_DeduplicatedAssociation ==
    [][/\ \A row \in RowsOf(Stakeholders_Meetings') : Stakeholders_Meetings'[row] = 1
       /\ Ran("create", "ok") =>
            LET m == outcome'.meeting_id
                all == outcome'.selected \cup ToSet(session_state'.ics_stakeholders)
            IN  /\ getAttendees(Store', m) = all
                /\ \A s \in all : Pairs(Store', s, m) = 1]_vars

\* a create has succeeded whose selected ids and invite ids overlap without
\* one containing the other
C7_Witness ==
    /\ outcome.op = "create" /\ outcome.status = "ok"
    /\ outcome.selected \cap ToSet(session_state.ics_stakeholders) # {}
    /\ outcome.selected \ ToSet(session_state.ics_stakeholders) # {}
    /\ ToSet(session_state.ics_stakeholders) \ outcome.selected # {}
    /\ Cardinality(getAttendees(Store, outcome.meeting_id)) = 3

\* C8: after a successful create, the row read back under the identifier
\* the create returned carries the title, date and notes that were passed,
\* and the attendees read back are the attendee set that was passed.
C8_CreateRoundTrip ==
    [][Ran("create", "ok") =>
         LET m == outcome'.meeting_id
             rows == { r \in Meetings' : r.pk_meeting_id = m }
         IN  /\ session_state'.selected_meeting_id = <<m>>
             /\ m \notin MeetingIds(Store)
             /\ Cardinality(rows) = 1
             /\ \A r \in rows :
                  /\ r.title = outcome'.title
                  /\ r.date.iso = outcome'.date.d
                  /\ r.discussions = outcome'.discussion
             /\ getAttendees(Store', m) =
                  outcome'.selected \cup ToSet(session_state'.ics_stakeholders)]_vars

\* a second meeting has been created, typed by hand with attendees, after
\* one created from an invite
C8_Witness ==
    /\ outcome.op = "create" /\ outcome.status = "ok"
    /\ outcome.meeting_id = 2
    /\ outcome.title = "Standup"
    /\ MeetingRow(Store, 2).title = "Standup"
    /\ MeetingRow(Store, 2).discussions = "minutes"
    /\ FromInvite(MeetingRow(Store, 1).title)
    /\ getAttendees(Store, 2) # {}

\* C11: every row of the junction table references a stakeholder record
\* and a meeting record that are both in the store, also after a create or
\* an update that failed part-way.
C11_ReferentialIntegrity ==
    \A row \in RowsOf(Stakeholders_Meetings) :
        /\ row.fk_sh_id \in StakeholderIds(Store)
        /\ row.fk_meeting_id \in MeetingIds(Store)

\* a create has failed at its second association insert and has left the
\* meeting with the one association committed before it
C11_Witness ==
    /\ outcome.op = "create" /\ outcome.status = "error"
    /\ outcome.failed_at = 3
    /\ Cardinality(getAttendees(Store, outcome.meeting_id)) = 1
    /\ Cardinality(Stakeholders) >= 2

\* C16: an update of meeting m, whether it succeeds or fails, leaves m's
\* title and date, the set of meeting records, every other meeting's notes
\* and attendee rows, and every stakeholder record unchanged.
C16_UpdateFrame ==
    [][(runs' # runs /\ outcome'.op = "save") =>
         LET m == outcome'.meeting_id
         IN  /\ MeetingIds(Store') = MeetingIds(Store)
             /\ Cardinality(Meetings') = Cardinality(Meetings)
             /\ MeetingRow(Store', m).title = MeetingRow(Store, m).title
             /\ MeetingRow(Store', m).date = MeetingRow(Store, m).date
             /\ \A r \in Meetings : r.pk_meeting_id # m => r \in Meetings'
             /\ \A row \in RowsOf(Stakeholders_Meetings) \cup RowsOf(Stakeholders_Meetings') :
                  row.fk_meeting_id # m =>
                     Pairs(Store', row.fk_sh_id, row.fk_meeting_id)
                        = Pairs(Store, row.fk_sh_id, row.fk_meeting_id)
             /\ Stakeholders' = Stakeholders]_vars

\* an update has succeeded on one of two meetings while the other meeting
\* has attendees and notes that differ from the notes given
C16_Witness ==
    /\ outcome.op = "save" /\ outcome.status = "ok"
    /\ getAttendees(Store, outcome.meeting_id) = outcome.selected
    /\ \E r \in Meetings :
         /\ r.pk_meeting_id # outcome.meeting_id
         /\ r.discussions # outcome.discussion
         /\ getAttendees(Store, r.pk_meeting_id) # {}
         /\ getAttendees(Store, r.pk_meeting_id) # outcome.selected

\* C17: importing an invite writes nothing to Meetings and to the junction
\* table; the stakeholders it creates for the invite's attendees are in the
\* committed store after the run and stay there when no meeting is added.
C17_ImportWithoutSave ==
    [][/\ Stakeholders \subseteq Stakeholders'
       /\ (runs' # runs /\ outcome'.op = "upload") =>
            /\ Meetings' = Meetings
            /\ Stakeholders_Meetings' = Stakeholders_Meetings
            /\ Imported =>
                 LET emails == { meeting_data'[1].d.attendees[i].email :
                                   i \in 1..Len(meeting_data'[1].d.attendees) }
                 IN  /\ emails \subseteq { r.email : r \in Stakeholders' }
                     /\ { r.email : r \in Stakeholders' \ Stakeholders }
                          = emails \ { r.email : r \in Stakeholders }
            /\ ~Imported => Stakeholders' = Stakeholders]_vars

\* an invite was imported, no meeting was ever added, the user has left the
\* create form, and the stakeholders of the invite are in the directory
C17_Witness ==
    /\ outcome.op = "toggle"
    /\ ~session_state.create_new_meeting
    /\ session_state.ics_stakeholders # <<>>
    /\ Meetings = {}
    /\ Stakeholders_Meetings = NoRows
    /\ { r.pk_sk_id : r \in Stakeholders } = ToSet(session_state.ics_stakeholders)

-----------------------------------------------------------------------------
(* Properties of the invite parser (SpecParse) *)

\* the uploaded document decodes and has an event; its first event
HasEvent(file) ==
    file # <<>> /\ ~file[1].malformed /\ FirstEvent(file[1].components) # <<>>

EventOf(file) == FirstEvent(file[1].components)[1]

\* C9: parsing a well-formed invite whose first event has no start time
\* yields a draft with title, notes and attendees whose date is the current
\* date at parse time, not a failure and not an empty result.
C9_LenientDateDefault ==
    [][(runs' # runs /\ outcome'.op = "upload"
        /\ HasEvent(ics_file') /\ EventOf(ics_file').dtstart = <<>>)
        => /\ meeting_data' # <<>>
           /\ Truthy(meeting_data'[1])
           /\ DOMAIN meeting_data'[1].d = {"title", "date", "description", "attendees"}
           /\ meeting_data'[1].d.date.d = now]_vars

\* the attendee line carries a mailto: address
CarriesAddress(line) ==
    \E i \in Occurrences(line.value, Mailto) : i + Len(Mailto) <= Len(line.value)

AddressOf(line) ==
    Drop(line.value, Min(Occurrences(line.value, Mailto)) + Len(Mailto) - 1)

\* C10: for an event with zero, one or many attendee lines, the emails of
\* the draft's attendee list are the addresses of the lines that carry a
\* mailto: address, in document order.
C10_AttendeeExtraction ==
    (HasEvent(ics_file) /\ EventOf(ics_file).dtstart # <<>>)
        => /\ meeting_data # <<>>
           /\ Truthy(meeting_data[1])
           /\ LET lines == SelectSeq(EventOf(ics_file).attendee, CarriesAddress)
                  attendees == meeting_data[1].d.attendees
              IN  /\ Len(attendees) = Len(lines)
                  /\ \A i \in 1..Len(lines) : attendees[i].email = AddressOf(lines[i])

\* the draft is complete: it has a title, a date, notes and an attendee list
CompleteDraft(data) ==
    /\ data # <<>>
    /\ data[1].tag = "dict"
    /\ DOMAIN data[1].d = {"title", "date", "description", "attendees"}

\* C13: the import step ends with either a complete draft or a parse
\* failure that is reported with its cause; a malformed document gives the
\* failure, and no exception escapes the step.
C13_ParseAllOrNothing ==
    outcome.op = "upload" =>
        /\ outcome.status # "crash"
        /\ \/ CompleteDraft(meeting_data) /\ outcome.status = "none"
           \/ /\ meeting_data # <<>>
              /\ meeting_data[1] = PyNone
              /\ outcome.status = "error"
        /\ ics_file[1].malformed => meeting_data[1] = PyNone

\* the attendee lines of the uploaded event that the draft has entries for,
\* in the order of the entries; none when the draft dropped or added lines
DraftLines ==
    IF HasEvent(ics_file) /\ CompleteDraft(meeting_data)
    THEN LET lines == SelectSeq(EventOf(ics_file).attendee, CarriesAddress)
         IN  IF Len(lines) = Len(meeting_data[1].d.attendees) THEN lines ELSE <<>>
    ELSE <<>>

\* the text before the first '@'
LocalPart(email) ==
    IF \E i \in 1..Len(email) : email[i] = "@"
    THEN Take(email, Min({ i \in 1..Len(email) : email[i] = "@" }) - 1)
    ELSE email

SplitAtWhitespace(cn) ==
    LET at == { i \in 1..Len(cn) : cn[i] \in Whitespace }
    IN  IF at = {} THEN <<cn, <<>>>>
        ELSE <<Take(cn, Min(at) - 1), Drop(cn, Min(at))>>

\* C15: an attendee whose common name is a non-empty text C, whatever its
\* characters, has in the draft the part of C before its first whitespace
\* as first name and the whole remainder after it as last name.
C15_CommonNameSplit ==
    \A i \in 1..Len(DraftLines) :
        DraftLines[i].CN # <<>> =>
            /\ meeting_data[1].d.attendees[i].first_name = SplitAtWhitespace(DraftLines[i].CN)[1]
            /\ meeting_data[1].d.attendees[i].last_name = SplitAtWhitespace(DraftLines[i].CN)[2]

-----------------------------------------------------------------------------
(* Properties of the label function (SpecFormat) *)

\* the rows of the directory that carry the id
Resolves(x) == { r \in Stakeholders : r.pk_sk_id = x }

\* the 'unknown' placeholder of an id
UnknownLabel(x) == UnknownWord \o StakeholderWord \o Str(x)

\* C12: for every directory snapshot, the empty one included, and every
\* id: an id that is not in the snapshot is labelled with the 'unknown'
\* placeholder, an id whose row has an empty name with "Stakeholder {id}",
\* any other id with "First Last" trimmed; the 'unknown' placeholder is
\* the label if and only if the id does not resolve.
C12_FormatDisplayName ==
    \A x \in DOMAIN labels :
        /\ Resolves(x) = {} => labels[x] = UnknownLabel(x)
        /\ \A r \in Resolves(x) :
             LET name == Strip(r.first_name \o <<" ">> \o r.last_name)
             IN  labels[x] = IF name = <<>> THEN StakeholderWord \o Str(x) ELSE name
        /\ labels[x] = UnknownLabel(x) <=> Resolves(x) = {}

====
